---- MODULE Spec2Model ----
(***************************************************************************)
(* seotrove-sdk: ContentFetcher (content-fetcher.ts) and ContentScheduler  *)
(* (scheduler.ts) as a state machine.                                      *)
(*                                                                         *)
(* JavaScript runs the code on one thread; an `await` is the only place    *)
(* where another callback can run.  Every action below is one synchronous  *)
(* segment of the code: from a call, or from the resumption of an await,   *)
(* to the next await or return.                                            *)
(***************************************************************************)
EXTENDS Integers, Sequences, FiniteSets, TLC

\* Bounds of the model.
MaxPages == 2      \* pages in one fetched bundle
MaxTasks == 1      \* sync-family invocations that are in flight at once
MaxObjs  == 1      \* ContentFetcher objects constructed in one behaviour

VARIABLES
    fetchers,      \* ContentScheduler.fetchers: Map<string, ContentFetcher>, in insertion order
    schedulers,    \* ContentScheduler.schedulers: Map<string, Timeout>, in insertion order
    isLegacyMode,  \* ContentScheduler.isLegacyMode
    legacyId,      \* ContentScheduler.legacyId
    timers,        \* the live interval timers of the Node event loop
    nObjs,         \* number of ContentFetcher objects constructed so far
    config,        \* ContentFetcher.config, per object
    isFirstSync,   \* ContentFetcher.isFirstSync, per object
    intervalId,    \* ContentFetcher.intervalId, per object
    tasks,         \* the sync-family invocations (async calls) in flight, in call order
    hist,          \* history of each object: what has been called on it
    last,          \* the call made by the latest step, and how it ended
    awaiting,      \* who awaits each invocation in flight, where that is kept
    resolved,      \* what the awaiting code made of the latest return
    room           \* the number of invocations the model keeps in flight

vars == <<fetchers, schedulers, isLegacyMode, legacyId, timers, nObjs,
          config, isFirstSync, intervalId, tasks, hist, last,
          awaiting, resolved, room>>

schedVars == <<fetchers, schedulers, isLegacyMode, legacyId, timers, nObjs>>

Objs  == 1..MaxObjs
Slots == 1..MaxTasks

\* JavaScript's undefined / null, where an id, an object or a handle is absent.
UNDEFINED == "<undefined>"
NoObj     == 0

-----------------------------------------------------------------------------
(* types.ts: the data.                                                     *)

\* A urlPath is the sequence of its parts: directory names, "/" and a
\* ".html" suffix, so that the suffix and directory handling of createFiles
\* is computed, not assumed.
NewUrl(k)  == IF k % 2 = 1 THEN <<"/", "new", ToString(k)>>
                           ELSE <<"blog", "/", "new", ToString(k), ".html">>
PrevUrl(k) == IF k % 2 = 1 THEN <<"old", ToString(k), ".html">>
                           ELSE <<"/", "docs", "/", "old", ToString(k)>>

ContentPage(u) == [urlPath |-> u]

NewPages(n)  == [k \in 1..n |-> ContentPage(NewUrl(k))]
PrevPages(n) == [k \in 1..n |-> ContentPage(PrevUrl(k))]

ContentApiResponse(s, r, p) == [sitemapXml |-> s, robotTxt |-> r, pages |-> p]

EmptyContent == ContentApiResponse("", "", <<>>)

\* What the two endpoints can answer with status 200, within the bounds.
NewBundles ==
    { ContentApiResponse(s, r, NewPages(n)) :
        s \in {"", "<new-sitemap/>"}, r \in {"", "new-robots"}, n \in 0..MaxPages }
PrevBundles ==
    { ContentApiResponse(s, r, PrevPages(n)) :
        s \in {"", "<prev-sitemap/>"}, r \in {"", "prev-robots"}, n \in 0..MaxPages }

ContentFetcherConfig(d, i, t) == [domain |-> d, installId |-> i, targetDirectory |-> t]

CfgA == ContentFetcherConfig("a.example", "install-a", "out")
CfgB == ContentFetcherConfig("b.example", "install-b", "public")

-----------------------------------------------------------------------------
(* The HTTP exchange of one fetch(url): the request fails (network), or a  *)
(* response arrives with a status and a body.  A body is unparseable, an   *)
(* error object { error: msg }, or a content bundle.                       *)

SENTINEL == "No generated pages to publish."

Unparseable    == [kind |-> "unparseable"]
ErrorBody(msg) == [kind |-> "error", error |-> msg]
ContentBody(b) == [kind |-> "content", data |-> b]

NetworkFailure     == [failed |-> TRUE]
HttpResponse(s, j) == [failed |-> FALSE, status |-> s, json |-> j]

ErrorBodies == {ErrorBody(SENTINEL), ErrorBody("Not Found"), Unparseable}

Responses(bundles) ==
    {NetworkFailure}
      \cup { HttpResponse(200, ContentBody(b)) : b \in bundles }
      \cup { HttpResponse(200, Unparseable) }
      \cup { HttpResponse(s, j) : s \in {404, 500}, j \in ErrorBodies }

\* Response.ok
ResponseOk(resp) == resp.status >= 200 /\ resp.status <= 299

\* (await response.json().catch(() => ({}))).error
ErrorField(json) == IF json.kind = "error" THEN json.error ELSE UNDEFINED

\* The settled state of a promise, as Promise.allSettled reports it.
NOT_ISSUED   == [status |-> "not issued"]
PENDING      == [status |-> "pending"]
Fulfilled(v) == [status |-> "fulfilled", value |-> v]
Rejected(r)  == [status |-> "rejected", reason |-> r]

Settled(res) == res.status \in {"fulfilled", "rejected"}

\* FetchOutcome without the branch for status 404 and the sentinel message.
FetchOutcome_NoSentinel(resp, what) ==
    IF resp.failed THEN Rejected(<<what, "fetch failed">>)
    ELSE IF ~ResponseOk(resp) THEN Rejected(<<what, "API request failed">>)
    ELSE IF resp.json.kind = "content"
        THEN Fulfilled(resp.json.data)
        ELSE Rejected(<<what, "invalid json">>)

\* What the body of fetchContent / fetchPreviouslyPublishedContent makes of
\* the exchange; `what` is the text of the Error it throws.
FetchOutcome(resp, what) ==
    IF resp.failed THEN Rejected(<<what, "fetch failed">>)
    ELSE IF ~ResponseOk(resp) THEN
        IF resp.status = 404 /\ ErrorField(resp.json) = SENTINEL
        THEN Fulfilled(EmptyContent)
        ELSE Rejected(<<what, "API request failed">>)
    ELSE IF resp.json.kind = "content"
        THEN Fulfilled(resp.json.data)
        ELSE Rejected(<<what, "invalid json">>)

fetchContent(resp) == FetchOutcome(resp, "Failed to fetch new content")

fetchPreviouslyPublishedContent(resp) ==
    FetchOutcome(resp, "Failed to fetch previously published content")

\* The value fetchAllContent takes for one branch of Promise.allSettled.
SettledValue(res) == IF res.status = "fulfilled" THEN res.value ELSE EmptyContent

\* a || b on strings
OrElse(a, b) == IF a # "" THEN a ELSE b

\* fetchAllContent with the new pages put before the previous ones.
fetchAllContent_NewFirst(newContentResult, previousContentResult) ==
    LET newContent      == SettledValue(newContentResult)
        previousContent == SettledValue(previousContentResult)
    IN  ContentApiResponse(
            OrElse(newContent.sitemapXml, previousContent.sitemapXml),
            OrElse(newContent.robotTxt, previousContent.robotTxt),
            newContent.pages \o previousContent.pages)

\* fetchAllContent, from the two settled fetches on.  With bodies of the
\* declared type nothing in its try block throws, so its catch is not taken.
fetchAllContent(newContentResult, previousContentResult) ==
    LET newContent      == SettledValue(newContentResult)
        previousContent == SettledValue(previousContentResult)
    IN  ContentApiResponse(
            OrElse(newContent.sitemapXml, previousContent.sitemapXml),
            OrElse(newContent.robotTxt, previousContent.robotTxt),
            previousContent.pages \o newContent.pages)

-----------------------------------------------------------------------------
(* createFiles: the write stage.                                           *)

EndsWithHtml(u) == Len(u) > 0 /\ u[Len(u)] = ".html"

\* urlPath with the .html extension ensured (createFiles, lines 166-169)
WithHtml(u) == IF EndsWithHtml(u) THEN u ELSE Append(u, ".html")

RECURSIVE StripLeadingSlash(_)
StripLeadingSlash(u) ==
    IF Len(u) > 0 /\ u[1] = "/" THEN StripLeadingSlash(Tail(u)) ELSE u

\* path.relative(baseDir, path.join(baseDir, dirname, basename)) of a page
PageFile(page) == StripLeadingSlash(WithHtml(page.urlPath))

\* Positions in createFiles: 0 at entry, 1 the sitemap write, 2 the robots
\* write, 2 + k the write of page k, and the end after the last page.
EndPos(content) == Len(content.pages) + 3

\* Advance without the tests of sitemapXml and robotTxt.
Advance_NoSkip(content, p) ==
    IF p < 2 THEN p + 1
    ELSE IF p = 2 THEN (IF Len(content.pages) > 0 THEN 3 ELSE EndPos(content))
    ELSE p + 1

\* The next write createFiles awaits after position p, skipping an empty
\* sitemapXml and an empty robotTxt.
Advance(content, p) ==
    IF p < 1 /\ content.sitemapXml # "" THEN 1
    ELSE IF p < 2 /\ content.robotTxt # "" THEN 2
    ELSE IF p < 2 THEN (IF Len(content.pages) > 0 THEN 3 ELSE EndPos(content))
    ELSE p + 1

\* The entry of filesCreated for the item written at position p.
FileAt(content, p) ==
    IF p = 1 THEN <<"sitemap.xml">>
    ELSE IF p = 2 THEN <<"robots.txt">>
    ELSE PageFile(content.pages[p - 2])

\* The entry of errors for the item whose write failed at position p.
ErrorAt(content, p) ==
    IF p = 1 THEN <<"Failed to create sitemap.xml">>
    ELSE IF p = 2 THEN <<"Failed to create robots.txt">>
    ELSE <<"Failed to create page">> \o content.pages[p - 2].urlPath

\* The SyncResult createFiles returns (lines 198-210); message is left out.
SyncResult(filesCreated, errors) ==
    IF Len(errors) = 0
    THEN [success |-> TRUE, filesCreated |-> filesCreated]
    ELSE [success |-> FALSE, filesCreated |-> filesCreated, errors |-> errors]

\* The SyncResult of the catch block of a sync-family operation.
FailedSync(errorMsg) ==
    [success |-> FALSE, filesCreated |-> <<>>, errors |-> <<errorMsg>>]

HasErrors(result) == "errors" \in DOMAIN result

ErrorsLen(result) == IF HasErrors(result) THEN Len(result.errors) ELSE 0

-----------------------------------------------------------------------------
(* A JavaScript Map, in insertion order: a sequence of entries.            *)

Keys(m) == { m[i].key : i \in DOMAIN m }

Has(m, k) == k \in Keys(m)

Get(m, k) == (CHOOSE e \in { m[i] : i \in DOMAIN m } : e.key = k).value

\* Map.set: a present key keeps its place, a new key goes last.
MapSet(m, k, v) ==
    IF Has(m, k)
    THEN [i \in DOMAIN m |-> IF m[i].key = k THEN [key |-> k, value |-> v] ELSE m[i]]
    ELSE Append(m, [key |-> k, value |-> v])

MapDelete(m, k) == SelectSeq(m, LAMBDA e : e.key # k)

-----------------------------------------------------------------------------
(* The invocations of the async sync-family methods of a ContentFetcher.   *)
(* A task is one invocation: its locals and the await it is suspended at.  *)

NULL == [null |-> TRUE]

Min(S) == CHOOSE x \in S : \A y \in S : x <= y

\* The invocations in flight once the s-th of them has returned.
Without(ts, s) == SubSeq(ts, 1, s - 1) \o SubSeq(ts, s + 1, Len(ts))

\* The locals of an invocation at its first await.  first, afterFirst and
\* afterReset record where the call stands in the history of its object,
\* dir the targetDirectory of the config the call was made with.
Task(op, o, path, newRes, prevRes, h) ==
    [op |-> op, obj |-> o, pc |-> "fetch", path |-> path,
     url |-> [domain |-> config[o].domain, installId |-> config[o].installId],
     newRes |-> newRes, prevRes |-> prevRes, newHttp |-> NULL, prevHttp |-> NULL,
     content |-> NULL, baseDir |-> UNDEFINED, pos |-> 0,
     filesCreated |-> <<>>, errors |-> <<>>, attempts |-> <<>>, result |-> NULL,
     dir |-> config[o].targetDirectory,
     first |-> (op = "syncContent" /\ h.calls = 0),
     afterFirst |-> (op = "syncContent" /\ h.firstReturned /\ ~h.everReset),
     afterReset |-> (op = "syncContent" /\ h.resetPending)]

\* The fetch path syncContent takes (lines 234-245): "merged" is
\* fetchAllContent, "new" is fetchContent alone.
SyncPath(firstSync) == IF firstSync THEN "merged" ELSE "new"

\* The requests a path issues before its first await.
IssuedNew(path)  == IF path \in {"merged", "new"} THEN PENDING ELSE NOT_ISSUED
IssuedPrev(path) == IF path \in {"merged", "previous"} THEN PENDING ELSE NOT_ISSUED

\* The path of each sync-family method.
PathOf(op, firstSync) ==
    CASE op = "syncContent"             -> SyncPath(firstSync)
      [] op = "syncNewContentOnly"      -> "new"
      [] op = "syncPreviousContentOnly" -> "previous"
      [] op = "syncAllContent"          -> "merged"

\* A call of a sync-family method on object o, up to its first await, with
\* the invocations ts in flight: the invocations in flight after it.
Invoke(ts, op, o) ==
    LET path == PathOf(op, isFirstSync[o])
    IN  Append(ts, Task(op, o, path, IssuedNew(path), IssuedPrev(path), hist[o]))

\* A call and how it ended; task is the invocation that returned, if one did.
Call(op, arg, o, outcome) ==
    [op |-> op, arg |-> arg, obj |-> o, outcome |-> outcome, task |-> NULL]

\* The return of invocation t: its promise is fulfilled with t.result.
Return(t) ==
    [op |-> t.op, arg |-> UNDEFINED, obj |-> t.obj, outcome |-> "returned", task |-> t]

\* createFiles up to its first await (lines 126-134): baseDir is resolved
\* from the config of that moment.  targetDirectory is a string, so
\* path.resolve does not throw and the outer catch is not taken.
EnterCreateFiles(t, content) ==
    [t EXCEPT !.pc = "write", !.content = content,
              !.baseDir = config[t.obj].targetDirectory,
              !.pos = Advance(content, 0)]

\* The text of the error a sync-family method reports in its catch block.
CatchMessage(op) ==
    CASE op = "syncContent"             -> "Content sync failed"
      [] op = "syncNewContentOnly"      -> "New content sync failed"
      [] op = "syncPreviousContentOnly" -> "Previously published content sync failed"
      [] op = "syncAllContent"          -> "Full content sync failed"

\* AfterFetch with the merged path failing when one of its fetches failed
\* (Promise.all in the place of Promise.allSettled).
AfterFetch_FailFast(t) ==
    IF "rejected" \in {t.newRes.status, t.prevRes.status}
    THEN LET res == IF t.newRes.status = "rejected" THEN t.newRes ELSE t.prevRes
         IN  [t EXCEPT !.pc = "done",
                       !.result = FailedSync(<<CatchMessage(t.op)>> \o res.reason)]
    ELSE IF t.path = "merged"
         THEN EnterCreateFiles(t, fetchAllContent(t.newRes, t.prevRes))
         ELSE EnterCreateFiles(t, IF t.path = "new" THEN t.newRes.value
                                                    ELSE t.prevRes.value)

\* AfterFetch without the catch block of the method: the rejection of the
\* fetch becomes that of the promise of the method.
AfterFetch_NoCatch(t) ==
    IF t.path = "merged"
    THEN EnterCreateFiles(t, fetchAllContent(t.newRes, t.prevRes))
    ELSE LET res == IF t.path = "new" THEN t.newRes ELSE t.prevRes
         IN  IF res.status = "fulfilled"
             THEN EnterCreateFiles(t, res.value)
             ELSE [t EXCEPT !.pc = "done", !.result = Rejected(res.reason)]

\* The invocation once every fetch it awaits has settled: the merged path
\* goes on with the merge, a single fetch goes on with its bundle or, when it
\* was rejected, ends in the catch block of the method.
AfterFetch(t) ==
    IF t.path = "merged"
    THEN EnterCreateFiles(t, fetchAllContent(t.newRes, t.prevRes))
    ELSE LET res == IF t.path = "new" THEN t.newRes ELSE t.prevRes
         IN  IF res.status = "fulfilled"
             THEN EnterCreateFiles(t, res.value)
             ELSE [t EXCEPT !.pc = "done",
                            !.result = FailedSync(<<CatchMessage(t.op)>> \o res.reason)]

\* A fetch of invocation s has settled, which leaves it as t; what is said
\* of the step when the invocation does not return in it is `call`.
Settle(s, t, call) ==
    IF t.newRes = PENDING \/ t.prevRes = PENDING
    THEN /\ tasks' = [tasks EXCEPT ![s] = t]
         /\ last' = call
    ELSE IF AfterFetch(t).pc = "done"
    THEN /\ tasks' = Without(tasks, s)
         /\ last' = Return(AfterFetch(t))
    ELSE /\ tasks' = [tasks EXCEPT ![s] = AfterFetch(t)]
         /\ last' = call

\* The request of fetchContent of task s ends with resp.
fetchContentSettles(s, resp) ==
    /\ s \in DOMAIN tasks
    /\ tasks[s].pc = "fetch"
    /\ tasks[s].newRes = PENDING
    /\ Settle(s, [tasks[s] EXCEPT !.newRes = fetchContent(resp), !.newHttp = resp],
              Call("fetchContent", UNDEFINED, tasks[s].obj, "settled"))
    /\ UNCHANGED <<schedVars, config, isFirstSync, intervalId>>

\* The request of fetchPreviouslyPublishedContent of task s ends with resp.
fetchPreviouslyPublishedContentSettles(s, resp) ==
    /\ s \in DOMAIN tasks
    /\ tasks[s].pc = "fetch"
    /\ tasks[s].prevRes = PENDING
    /\ Settle(s, [tasks[s] EXCEPT !.prevRes = fetchPreviouslyPublishedContent(resp),
                                  !.prevHttp = resp],
              Call("fetchPreviouslyPublishedContent", UNDEFINED, tasks[s].obj, "settled"))
    /\ UNCHANGED <<schedVars, config, isFirstSync, intervalId>>

\* The item createFiles is writing: the identifier the code names it by.
ItemAt(content, p) ==
    IF p = 1 THEN <<"sitemap.xml">>
    ELSE IF p = 2 THEN <<"robots.txt">>
    ELSE content.pages[p - 2].urlPath

\* WriteItem with a failed write recorded nowhere.
WriteItem_DropError(t, ok) ==
    [t EXCEPT !.attempts = Append(@, [item |-> ItemAt(t.content, t.pos), ok |-> ok]),
              !.filesCreated = IF ok THEN Append(@, FileAt(t.content, t.pos)) ELSE @,
              !.pos = Advance(t.content, t.pos)]

\* WriteItem with a failed write ending the loop.
WriteItem_AbortOnError(t, ok) ==
    [t EXCEPT !.attempts = Append(@, [item |-> ItemAt(t.content, t.pos), ok |-> ok]),
              !.filesCreated = IF ok THEN Append(@, FileAt(t.content, t.pos)) ELSE @,
              !.errors = IF ok THEN @ ELSE Append(@, ErrorAt(t.content, t.pos)),
              !.pos = IF ok THEN Advance(t.content, t.pos) ELSE EndPos(t.content)]

\* One item of createFiles: its write ends well (ok) or throws, and the
\* code goes on to the next write it awaits.
WriteItem(t, ok) ==
    [t EXCEPT !.attempts = Append(@, [item |-> ItemAt(t.content, t.pos), ok |-> ok]),
              !.filesCreated = IF ok THEN Append(@, FileAt(t.content, t.pos)) ELSE @,
              !.errors = IF ok THEN @ ELSE Append(@, ErrorAt(t.content, t.pos)),
              !.pos = Advance(t.content, t.pos)]

createFilesWrites(s, ok) ==
    /\ s \in DOMAIN tasks
    /\ tasks[s].pc = "write"
    /\ tasks[s].pos < EndPos(tasks[s].content)
    /\ tasks' = [tasks EXCEPT ![s] = WriteItem(tasks[s], ok)]
    /\ last' = Call("writeFile", UNDEFINED, tasks[s].obj, IF ok THEN "written" ELSE "threw")
    /\ UNCHANGED <<schedVars, config, isFirstSync, intervalId>>

\* FlagAfter with every sync-family method clearing isFirstSync.
FlagAfter_AnyOp(op, flag) == FALSE

\* FlagAfter with syncContent leaving isFirstSync as it is.
FlagAfter_Keep(op, flag) == flag

\* isFirstSync after the method op has got its result from createFiles
\* (syncContent, lines 250-253; the manual methods leave it alone).
FlagAfter(op, flag) == IF op = "syncContent" THEN FALSE ELSE flag

\* createFiles returns its SyncResult and the method that awaited it returns.
createFilesReturns(s) ==
    LET t == tasks[s] IN
    /\ s \in DOMAIN tasks
    /\ t.pc = "write"
    /\ t.pos = EndPos(t.content)
    /\ tasks' = Without(tasks, s)
    /\ isFirstSync' = [isFirstSync EXCEPT ![t.obj] = FlagAfter(t.op, @)]
    /\ last' = Return([t EXCEPT !.pc = "done",
                                !.result = SyncResult(t.filesCreated, t.errors)])
    /\ UNCHANGED <<schedVars, config, intervalId>>

-----------------------------------------------------------------------------
(* The public methods of a ContentFetcher, called by the host.             *)

Constructed(o) == o \in 1..nObjs

NoHistory == [calls |-> 0, firstReturned |-> FALSE, everReset |-> FALSE,
              resetPending |-> FALSE]

SyncOps == {"syncContent", "syncNewContentOnly", "syncPreviousContentOnly",
            "syncAllContent"}

\* The history of an object, kept where a property speaks of it: the calls
\* of syncContent on it (0, 1, or 2 for more), whether the first of them has
\* returned, whether resetFirstSyncFlag was ever called, and whether it was
\* called since the latest call of syncContent.  l is the call of the step.
Track(h, l) ==
    IF l.op = "syncContent" /\ l.outcome = "called"
    THEN [h EXCEPT ![l.obj] = [@ EXCEPT !.calls = IF @ < 2 THEN @ + 1 ELSE @,
                                       !.resetPending = FALSE]]
    ELSE IF l.op = "syncContent" /\ l.outcome = "returned" /\ l.task.first
    THEN [h EXCEPT ![l.obj] = [@ EXCEPT !.firstReturned = TRUE]]
    ELSE IF l.op = "resetFirstSyncFlag"
    THEN [h EXCEPT ![l.obj] = [@ EXCEPT !.everReset = TRUE, !.resetPending = TRUE]]
    ELSE h

Tracked(A)   == A /\ hist' = Track(hist, last') /\ UNCHANGED <<awaiting, resolved, room>>
Untracked(A) == A /\ hist' = hist /\ UNCHANGED <<awaiting, resolved, room>>

\* The model keeps at most MaxTasks invocations in flight: a call that starts
\* n more of them is taken when there is room for them.
Room(n) == Len(tasks) + n <= room

\* fetcher.syncContent(), syncNewContentOnly(), syncPreviousContentOnly() or
\* syncAllContent() (and its aliases), up to the first await.
callSync(op, o) ==
    /\ Constructed(o)
    /\ Room(1)
    /\ tasks' = Invoke(tasks, op, o)
    /\ last' = Call(op, UNDEFINED, o, "called")
    /\ UNCHANGED <<schedVars, config, isFirstSync, intervalId>>

\* fetcher.createFiles(content), up to the first await.
callCreateFiles(o, content) ==
    /\ Constructed(o)
    /\ Room(1)
    /\ tasks' = Append(tasks,
                    EnterCreateFiles(
                        Task("createFiles", o, "none", NOT_ISSUED, NOT_ISSUED,
                             hist[o]),
                        content))
    /\ last' = Call("createFiles", UNDEFINED, o, "called")
    /\ UNCHANGED <<schedVars, config, isFirstSync, intervalId>>

-----------------------------------------------------------------------------
(* SpecBundle: one sync-family operation on one freshly constructed        *)
(* ContentFetcher, over every answer of the two endpoints and every        *)
(* outcome of every write.                                                 *)

InitFetchers ==
    /\ config = [o \in Objs |-> CfgA]
    /\ isFirstSync = [o \in Objs |-> TRUE]
    /\ intervalId = [o \in Objs |-> NULL]
    /\ hist = [o \in Objs |-> NoHistory]
    /\ tasks = <<>>
    /\ last = Call("new", UNDEFINED, NoObj, "constructed")
    /\ awaiting = <<>>
    /\ resolved = NULL
    /\ room = MaxTasks

InitBundle ==
    /\ fetchers = <<>>
    /\ schedulers = <<>>
    /\ isLegacyMode = FALSE
    /\ legacyId = UNDEFINED
    /\ timers = {}
    /\ nObjs = 1
    /\ InitFetchers

Untouched == last.op = "new"

NextBundle ==
    \/ \E op \in SyncOps : Untracked(Untouched /\ callSync(op, 1))
    \/ \E b \in NewBundles \cup PrevBundles : Untracked(Untouched /\ callCreateFiles(1, b))
    \/ \E s \in Slots, resp \in Responses(NewBundles) :
            Untracked(fetchContentSettles(s, resp))
    \/ \E s \in Slots, resp \in Responses(PrevBundles) :
            Untracked(fetchPreviouslyPublishedContentSettles(s, resp))
    \/ \E s \in Slots, ok \in BOOLEAN : Untracked(createFilesWrites(s, ok))
    \/ \E s \in Slots : Untracked(createFilesReturns(s))

SpecBundle == InitBundle /\ [][NextBundle]_vars

-----------------------------------------------------------------------------
(* ContentFetcher: resetFirstSyncFlag and updateConfig.                    *)

resetFirstSyncFlag(o) ==
    /\ Constructed(o)
    /\ isFirstSync' = [isFirstSync EXCEPT ![o] = TRUE]
    /\ last' = Call("resetFirstSyncFlag", UNDEFINED, o, "returned")
    /\ UNCHANGED <<schedVars, config, intervalId, tasks>>

\* Spread with newConfig taken whole.
Spread_Replace(cfg, newConfig) == newConfig

\* { ...config, ...newConfig }: newConfig is a record of some of the fields.
Spread(cfg, newConfig) ==
    [f \in DOMAIN cfg |-> IF f \in DOMAIN newConfig THEN newConfig[f] ELSE cfg[f]]

-----------------------------------------------------------------------------
(* ContentScheduler.                                                       *)

\* The ids of the model: the empty string is an id like any other for the
\* two maps, and is falsy in the tests `!id` and `!targetId`.
Ids  == {"", "a", "b"}
Args == Ids \cup {UNDEFINED}

Falsy(id) == id = UNDEFINED \/ id = ""

\* The handle setInterval returns: the timer it names runs a callback that
\* has captured targetId and fetcher.  n tells apart the timers of the same
\* closure values.
Timeout(owner, id, o, n) == [owner |-> owner, id |-> id, fetcher |-> o, n |-> n]

setInterval(live, owner, id, o) ==
    Timeout(owner, id, o,
            Min({ n \in 1..(Cardinality(live) + 1) : Timeout(owner, id, o, n) \notin live }))

\* const targetId = this.isLegacyMode && !id ? this.legacyId : id
TargetId(id) == IF isLegacyMode /\ Falsy(id) THEN legacyId ELSE id

\* The part of the state start and stop work on, and how the call ended.
World == [fetchers |-> fetchers, schedulers |-> schedulers, timers |-> timers,
          tasks |-> tasks, outcome |-> "none"]

Threw(w) == w.outcome \in {"threw: no id", "threw: not found"}

\* start(id) without the test of this.schedulers.has(targetId).
startIn_NoGuard(w, id) ==
    LET targetId == TargetId(id) IN
    IF Falsy(targetId) THEN [w EXCEPT !.outcome = "threw: no id"]
    ELSE IF ~Has(w.fetchers, targetId) THEN [w EXCEPT !.outcome = "threw: not found"]
    ELSE LET fetcher    == Get(w.fetchers, targetId)
             intervalId0 == setInterval(w.timers, "scheduler", targetId, fetcher)
         IN  [w EXCEPT !.timers = @ \cup {intervalId0},
                       !.schedulers = MapSet(@, targetId, intervalId0),
                       !.tasks = Invoke(@, "syncContent", fetcher),
                       !.outcome = "started"]

\* start(id) arming the timer before it looks the fetcher up.
startIn_ArmFirst(w, id) ==
    LET targetId == TargetId(id) IN
    IF Falsy(targetId) THEN [w EXCEPT !.outcome = "threw: no id"]
    ELSE IF Has(w.schedulers, targetId) THEN [w EXCEPT !.outcome = "already running"]
    ELSE LET fetcher    == IF Has(w.fetchers, targetId) THEN Get(w.fetchers, targetId)
                           ELSE NoObj
             intervalId0 == setInterval(w.timers, "scheduler", targetId, fetcher)
         IN  IF fetcher = NoObj
             THEN [w EXCEPT !.timers = @ \cup {intervalId0},
                            !.schedulers = MapSet(@, targetId, intervalId0),
                            !.outcome = "threw: not found"]
             ELSE [w EXCEPT !.timers = @ \cup {intervalId0},
                            !.schedulers = MapSet(@, targetId, intervalId0),
                            !.tasks = Invoke(@, "syncContent", fetcher),
                            !.outcome = "started"]

\* start(id) without its call of fetcher.syncContent().
startIn_NoInitialSync(w, id) ==
    LET targetId == TargetId(id) IN
    IF Falsy(targetId) THEN [w EXCEPT !.outcome = "threw: no id"]
    ELSE IF ~Has(w.fetchers, targetId) THEN [w EXCEPT !.outcome = "threw: not found"]
    ELSE IF Has(w.schedulers, targetId) THEN [w EXCEPT !.outcome = "already running"]
    ELSE LET fetcher    == Get(w.fetchers, targetId)
             intervalId0 == setInterval(w.timers, "scheduler", targetId, fetcher)
         IN  [w EXCEPT !.timers = @ \cup {intervalId0},
                       !.schedulers = MapSet(@, targetId, intervalId0),
                       !.outcome = "started"]

\* start(id) from the state w.
startIn(w, id) ==
    LET targetId == TargetId(id) IN
    IF Falsy(targetId) THEN [w EXCEPT !.outcome = "threw: no id"]
    ELSE IF ~Has(w.fetchers, targetId) THEN [w EXCEPT !.outcome = "threw: not found"]
    ELSE IF Has(w.schedulers, targetId) THEN [w EXCEPT !.outcome = "already running"]
    ELSE LET fetcher    == Get(w.fetchers, targetId)
             intervalId0 == setInterval(w.timers, "scheduler", targetId, fetcher)
         IN  [w EXCEPT !.timers = @ \cup {intervalId0},
                       !.schedulers = MapSet(@, targetId, intervalId0),
                       !.tasks = Invoke(@, "syncContent", fetcher),
                       !.outcome = "started"]

\* stop(id) without clearInterval.
stopIn_KeepTimer(w, id) ==
    LET targetId == TargetId(id) IN
    IF Falsy(targetId) THEN [w EXCEPT !.outcome = "threw: no id"]
    ELSE IF Has(w.schedulers, targetId)
    THEN [w EXCEPT !.schedulers = MapDelete(@, targetId), !.outcome = "stopped"]
    ELSE [w EXCEPT !.outcome = "not armed"]

\* stop(id) that cancels the timer and keeps its entry in schedulers.
stopIn_KeepEntry(w, id) ==
    LET targetId == TargetId(id) IN
    IF Falsy(targetId) THEN [w EXCEPT !.outcome = "threw: no id"]
    ELSE IF Has(w.schedulers, targetId)
    THEN [w EXCEPT !.timers = @ \ {Get(w.schedulers, targetId)},
                   !.outcome = "stopped"]
    ELSE [w EXCEPT !.outcome = "not armed"]

\* stop(id) from the state w.
stopIn(w, id) ==
    LET targetId == TargetId(id) IN
    IF Falsy(targetId) THEN [w EXCEPT !.outcome = "threw: no id"]
    ELSE IF Has(w.schedulers, targetId)
    THEN [w EXCEPT !.timers = @ \ {Get(w.schedulers, targetId)},
                   !.schedulers = MapDelete(@, targetId),
                   !.outcome = "stopped"]
    ELSE [w EXCEPT !.outcome = "not armed"]

\* removeFetcher(id) without its call of stop.
removeFetcherIn_NoStop(w, id) ==
    IF ~Has(w.fetchers, id) THEN [w EXCEPT !.outcome = "unknown"]
    ELSE [w EXCEPT !.fetchers = MapDelete(@, id), !.outcome = "removed"]

\* removeFetcher(id) from the state w: an error thrown by stop leaves the
\* method before the delete.
removeFetcherIn(w, id) ==
    IF ~Has(w.fetchers, id) THEN [w EXCEPT !.outcome = "unknown"]
    ELSE IF Threw(stopIn(w, id)) THEN stopIn(w, id)
    ELSE [stopIn(w, id) EXCEPT
            !.fetchers = MapDelete(@, id),
            !.outcome = IF stopIn(w, id).outcome = "stopped"
                        THEN "stopped and removed" ELSE "removed"]

\* The state after a call that has left it as w, within the room there is
\* for invocations.
Becomes(w) ==
    /\ Len(w.tasks) <= room
    /\ fetchers' = w.fetchers
    /\ schedulers' = w.schedulers
    /\ timers' = w.timers
    /\ tasks' = w.tasks

start(id) ==
    /\ Becomes(startIn(World, id))
    /\ last' = Call("start", id, NoObj, startIn(World, id).outcome)
    /\ UNCHANGED <<isLegacyMode, legacyId, nObjs, config, isFirstSync, intervalId>>

stop(id) ==
    /\ Becomes(stopIn(World, id))
    /\ last' = Call("stop", id, NoObj, stopIn(World, id).outcome)
    /\ UNCHANGED <<isLegacyMode, legacyId, nObjs, config, isFirstSync, intervalId>>

removeFetcher(id) ==
    /\ Becomes(removeFetcherIn(World, id))
    /\ last' = Call("removeFetcher", id, NoObj, removeFetcherIn(World, id).outcome)
    /\ UNCHANGED <<isLegacyMode, legacyId, nObjs, config, isFirstSync, intervalId>>

\* addFetcher with a new ContentFetcher put in the place of a known one.
addFetcher_Replace(id, cfg) ==
    IF Has(fetchers, id)
    THEN /\ config' = [config EXCEPT ![Get(fetchers, id)] = cfg]
         /\ isFirstSync' = [isFirstSync EXCEPT ![Get(fetchers, id)] = TRUE]
         /\ last' = Call("addFetcher", id, Get(fetchers, id), "updated")
         /\ UNCHANGED <<schedVars, intervalId, tasks>>
    ELSE /\ nObjs + 1 \in DOMAIN config
         /\ nObjs' = nObjs + 1
         /\ config' = [config EXCEPT ![nObjs + 1] = cfg]
         /\ fetchers' = MapSet(fetchers, id, nObjs + 1)
         /\ last' = Call("addFetcher", id, nObjs + 1, "added")
         /\ UNCHANGED <<schedulers, isLegacyMode, legacyId, timers, isFirstSync,
                        intervalId, tasks>>

\* addFetcher(id, cfg): updateConfig on the fetcher of a known id, a new
\* ContentFetcher for a new one.
addFetcher(id, cfg) ==
    IF Has(fetchers, id)
    THEN /\ config' = [config EXCEPT ![Get(fetchers, id)] = Spread(@, cfg)]
         /\ last' = Call("addFetcher", id, Get(fetchers, id), "updated")
         /\ UNCHANGED <<schedVars, isFirstSync, intervalId, tasks>>
    ELSE /\ nObjs + 1 \in DOMAIN config
         /\ nObjs' = nObjs + 1
         /\ config' = [config EXCEPT ![nObjs + 1] = cfg]
         /\ fetchers' = MapSet(fetchers, id, nObjs + 1)
         /\ last' = Call("addFetcher", id, nObjs + 1, "added")
         /\ UNCHANGED <<schedulers, isLegacyMode, legacyId, timers, isFirstSync,
                        intervalId, tasks>>

KeySeq(m) == [i \in DOMAIN m |-> m[i].key]

\* for (const id of keys) this.start(id): an error thrown ends the loop.
RECURSIVE startEach(_, _)
startEach(w, keys) ==
    IF keys = <<>> \/ Threw(w) THEN w
    ELSE startEach(startIn(w, Head(keys)), Tail(keys))

RECURSIVE stopEach(_, _)
stopEach(w, keys) ==
    IF keys = <<>> \/ Threw(w) THEN w
    ELSE stopEach(stopIn(w, Head(keys)), Tail(keys))

startAll ==
    /\ Becomes(startEach(World, KeySeq(fetchers)))
    /\ last' = Call("startAll", UNDEFINED, NoObj,
                    IF Threw(startEach(World, KeySeq(fetchers))) THEN "threw" ELSE "returned")
    /\ UNCHANGED <<isLegacyMode, legacyId, nObjs, config, isFirstSync, intervalId>>

stopAll ==
    /\ Becomes(stopEach(World, KeySeq(schedulers)))
    /\ last' = Call("stopAll", UNDEFINED, NoObj,
                    IF Threw(stopEach(World, KeySeq(schedulers))) THEN "threw" ELSE "returned")
    /\ UNCHANGED <<isLegacyMode, legacyId, nObjs, config, isFirstSync, intervalId>>

\* tick with a timer that fires once (setTimeout for setInterval).
tick_OneShot(h) ==
    /\ h \in timers
    /\ Room(1)
    /\ tasks' = Invoke(tasks, "syncContent", h.fetcher)
    /\ timers' = timers \ {h}
    /\ last' = Call("tick", h.id, h.fetcher, "called")
    /\ UNCHANGED <<fetchers, schedulers, isLegacyMode, legacyId, nObjs,
                   config, isFirstSync, intervalId>>

\* The callback of a live interval timer runs: it calls syncContent on the
\* fetcher it has captured.
tick(h) ==
    /\ h \in timers
    /\ Room(1)
    /\ tasks' = Invoke(tasks, "syncContent", h.fetcher)
    /\ last' = Call("tick", h.id, h.fetcher, "called")
    /\ UNCHANGED <<schedVars, config, isFirstSync, intervalId>>

\* scheduler.syncContent(id), up to its await.
schedulerSyncContent(id) ==
    IF ~Has(fetchers, id)
    THEN /\ last' = Call("scheduler.syncContent", id, NoObj, "threw: not found")
         /\ UNCHANGED <<schedVars, config, isFirstSync, intervalId, tasks>>
    ELSE /\ Room(1)
         /\ tasks' = Invoke(tasks, "syncContent", Get(fetchers, id))
         /\ last' = Call("scheduler.syncContent", id, Get(fetchers, id), "called")
         /\ UNCHANGED <<schedVars, config, isFirstSync, intervalId>>

\* syncAll that calls syncContent on the first fetcher alone.
InvokeEach_FirstOnly(ts, m) ==
    IF m = <<>> THEN ts ELSE Invoke(ts, "syncContent", Head(m).value)

RECURSIVE InvokeEach(_, _)
InvokeEach(ts, m) ==
    IF m = <<>> THEN ts
    ELSE InvokeEach(Invoke(ts, "syncContent", Head(m).value), Tail(m))

\* syncAll(), up to its await of Promise.all.
syncAll ==
    /\ Room(Len(fetchers))
    /\ tasks' = InvokeEach(tasks, fetchers)
    /\ last' = Call("syncAll", UNDEFINED, NoObj, "called")
    /\ UNCHANGED <<schedVars, config, isFirstSync, intervalId>>

\* The endpoints in Spec: the requests fail, so that a first sync ends with
\* an empty bundle and nothing to write, and a later one in its catch block.
Outage == {NetworkFailure}

\* What the endpoints answer in SpecSource: no answer, or content (a sitemap
\* from the new endpoint, one page from the other).
NewAnswers ==
    { NetworkFailure,
      HttpResponse(200, ContentBody(ContentApiResponse("<new-sitemap/>", "", <<>>))) }
PrevAnswers ==
    { NetworkFailure,
      HttpResponse(200, ContentBody(ContentApiResponse("", "", PrevPages(1)))) }

\* new ContentScheduler(), or new ContentScheduler(fetcher, id) with a
\* ContentFetcher the host has constructed.
Init ==
    /\ InitFetchers
    /\ schedulers = <<>>
    /\ timers = {}
    /\ \/ /\ isLegacyMode = FALSE /\ legacyId = UNDEFINED
          /\ fetchers = <<>>
          /\ nObjs = 0
       \/ /\ isLegacyMode = TRUE /\ legacyId = "a"
          /\ fetchers = <<[key |-> legacyId, value |-> 1]>>
          /\ nObjs = 1

Next ==
    \/ \E id \in Ids : Untracked(addFetcher(id, CfgB))
    \/ \E id \in Ids : Untracked(removeFetcher(id))
    \/ \E id \in Args : Untracked(start(id))
    \/ \E id \in Args : Untracked(stop(id))
    \/ Untracked(startAll)
    \/ Untracked(stopAll)
    \/ \E h \in timers : Untracked(tick(h))
    \/ \E id \in Ids : Untracked(schedulerSyncContent(id))
    \/ Untracked(syncAll)
    \/ \E s \in Slots, resp \in Outage : Untracked(fetchContentSettles(s, resp))
    \/ \E s \in Slots, resp \in Outage :
            Untracked(fetchPreviouslyPublishedContentSettles(s, resp))
    \/ \E s \in Slots : Untracked(createFilesReturns(s))

Spec == Init /\ [][Next]_vars

-----------------------------------------------------------------------------
(* SpecSource: one ContentFetcher in the hands of the host, which calls    *)
(* syncContent and resetFirstSyncFlag on it at any time, also while        *)
(* earlier invocations are suspended.                                      *)

NextSource ==
    \/ Tracked(callSync("syncContent", 1))
    \/ Tracked(resetFirstSyncFlag(1))
    \/ \E s \in Slots, resp \in NewAnswers : Tracked(fetchContentSettles(s, resp))
    \/ \E s \in Slots, resp \in PrevAnswers :
            Tracked(fetchPreviouslyPublishedContentSettles(s, resp))
    \/ \E s \in Slots, ok \in BOOLEAN : Tracked(createFilesWrites(s, ok))
    \/ \E s \in Slots : Tracked(createFilesReturns(s))

SpecSource == InitBundle /\ [][NextSource]_vars

-----------------------------------------------------------------------------
(* Properties of the write stage and of the fetches (SpecBundle).          *)

\* The invocation that has returned in the latest step, those in flight, and
\* of both those that have entered createFiles.
Returns == IF last.task # NULL THEN {last.task} ELSE {}
Tasks   == { tasks[s] : s \in DOMAIN tasks } \cup Returns
Writing == { t \in Tasks : t.pc \in {"write", "done"} /\ t.content # NULL }

\* The writes a bundle calls for: the sitemap iff sitemapXml is non-empty,
\* robots iff robotTxt is non-empty, then one per page, in bundle order.
WritesCalledFor(content) ==
    (IF content.sitemapXml = "" THEN <<>> ELSE << <<"sitemap.xml">> >>)
      \o (IF content.robotTxt = "" THEN <<>> ELSE << <<"robots.txt">> >>)
      \o [k \in 1..Len(content.pages) |-> content.pages[k].urlPath]

ItemsOf(attempts) == [k \in 1..Len(attempts) |-> attempts[k].item]

Failures(attempts) == Cardinality({ k \in 1..Len(attempts) : ~attempts[k].ok })

\* C5 as stated: in every SyncResult a sync-family operation returns,
\* filesCreated and errors together count the write attempts made.
C5_EveryOutcomeCountsWrites ==
    \A t \in Returns :
        Len(t.result.filesCreated) + ErrorsLen(t.result) = Len(t.attempts)

\* C5 amended: the count holds for every SyncResult that comes from the
\* write stage (createFiles, or a sync-family operation whose fetch step gave
\* a bundle), the writes attempted being those the bundle calls for; an
\* operation whose fetch failed returns one error entry, no file and has
\* attempted no write.
C5_WriteStageCountsWrites ==
    \A t \in Returns :
        IF t.content # NULL
        THEN /\ Len(t.result.filesCreated) + ErrorsLen(t.result) = Len(t.attempts)
             /\ ItemsOf(t.attempts) = WritesCalledFor(t.content)
        ELSE /\ t.result.filesCreated = <<>>
             /\ ErrorsLen(t.result) = 1
             /\ t.attempts = <<>>

C5_Witness ==
    \E t \in Returns :
        /\ t.op = "syncContent"
        /\ t.content.sitemapXml # "" /\ t.content.robotTxt = ""
        /\ Len(t.content.pages) = 2
        /\ Len(t.result.filesCreated) = 2 /\ ErrorsLen(t.result) = 1

\* C6: write failures are isolated per item: each failed write adds exactly
\* one entry to errors, every item the bundle calls for is still attempted,
\* success is true iff no write failed and errors is present iff one failed.
C6_WriteFailuresIsolated ==
    /\ \A t \in Writing : Len(t.errors) = Failures(t.attempts)
    /\ \A t \in Writing \cap Returns :
        /\ ItemsOf(t.attempts) = WritesCalledFor(t.content)
        /\ ErrorsLen(t.result) = Failures(t.attempts)
        /\ t.result.success <=> (Failures(t.attempts) = 0)
        /\ HasErrors(t.result) <=> (Failures(t.attempts) > 0)

\* sitemap and robots written, the one page fails: two files, one error.
C6_Witness ==
    \E t \in Returns :
        /\ t.op = "createFiles"
        /\ Len(t.attempts) = 3
        /\ t.attempts[1].ok /\ t.attempts[2].ok /\ ~t.attempts[3].ok
        /\ t.result.success = FALSE
        /\ t.result.filesCreated = << <<"sitemap.xml">>, <<"robots.txt">> >>
        /\ Len(t.result.errors) = 1

\* The file a written item is listed as in filesCreated: its name for the
\* sitemap and robots, and for a page its path under the target directory,
\* with .html at its end.
ListedAs(item) ==
    LET rel == IF item[1] = "/" THEN SubSeq(item, 2, Len(item)) ELSE item
    IN  IF item \in { <<"sitemap.xml">>, <<"robots.txt">> } THEN item
        ELSE IF rel[Len(rel)] = ".html" THEN rel ELSE rel \o <<".html">>

RECURSIVE Written(_)
Written(attempts) ==
    IF attempts = <<>> THEN <<>>
    ELSE (IF Head(attempts).ok THEN <<ListedAs(Head(attempts).item)>> ELSE <<>>)
            \o Written(Tail(attempts))

IsPrefix(a, b) == Len(a) <= Len(b) /\ a = SubSeq(b, 1, Len(a))

\* C7: the writes of one createFiles go in the order sitemap, robots, pages
\* in bundle order, an empty sitemapXml or robotTxt gives no write, and
\* filesCreated lists the items written, in that order.
C7_WritesInOrder ==
    \A t \in Writing :
        /\ IsPrefix(ItemsOf(t.attempts), WritesCalledFor(t.content))
        /\ t.filesCreated = Written(t.attempts)
        /\ t.pc = "done" =>
            /\ ItemsOf(t.attempts) = WritesCalledFor(t.content)
            /\ t.result.filesCreated = Written(t.attempts)

\* a sitemap, empty robots and the page /new1: sitemap.xml and new1.html
C7_Witness ==
    \E t \in Returns :
        /\ t.content = ContentApiResponse("<new-sitemap/>", "", <<ContentPage(<<"/", "new", "1">>)>>)
        /\ t.result = [success |-> TRUE,
                       filesCreated |-> << <<"sitemap.xml">>, <<"new", "1", ".html">> >>]

\* The bundle a fetch contributes to the merge: what it was fulfilled with,
\* the empty bundle when it failed.
Contributed(res) ==
    IF res.status = "rejected" THEN ContentApiResponse("", "", <<>>) ELSE res.value

Merged == { t \in Writing : t.path = "merged" }

\* C8: the bundle of fetchAllContent is the merge of the two fetched
\* bundles: sitemapXml and robotTxt of the new bundle where non-empty, else
\* of the previous one; the previous pages followed by the new pages.
C8_MergeRule ==
    \A t \in Merged :
        LET n == Contributed(t.newRes)
            p == Contributed(t.prevRes)
        IN  /\ t.content.sitemapXml = (IF n.sitemapXml # "" THEN n.sitemapXml ELSE p.sitemapXml)
            /\ t.content.robotTxt = (IF n.robotTxt # "" THEN n.robotTxt ELSE p.robotTxt)
            /\ t.content.pages = p.pages \o n.pages

\* the new fetch failed, the previous one gave two pages: those two pages
C8_Witness ==
    \E t \in Merged :
        /\ t.newRes.status = "rejected"
        /\ t.prevRes.status = "fulfilled"
        /\ t.content.pages = PrevPages(2)

\* C9: on the merged path both fetches are issued, a fetch that has failed
\* leaves the other one pending, the merge waits for both, and fetchAllContent
\* gives a bundle for every pair of outcomes: the invocation goes on to
\* createFiles and never ends in the catch block.
C9_BothFetchesAwaited ==
    \A t \in Tasks :
        t.path = "merged" =>
            /\ t.newRes # NOT_ISSUED /\ t.prevRes # NOT_ISSUED
            /\ t.pc = "fetch" <=> (PENDING \in {t.newRes, t.prevRes})
            /\ t.pc # "fetch" => /\ Settled(t.newRes) /\ Settled(t.prevRes)
                                 /\ t.content # NULL

C9_Witness ==
    \E t \in Tasks :
        /\ t.pc = "done" /\ t.path = "merged"
        /\ t.newRes.status = "rejected" /\ t.prevRes.status = "rejected"
        /\ t.result.success

\* The 404 answer with the empty-content message.
IsSentinel(http) ==
    /\ ~http.failed
    /\ http.status = 404
    /\ http.json = [kind |-> "error", error |-> "No generated pages to publish."]

\* An answer that is a failure: no answer, a status outside 2xx that is not
\* the sentinel, or a 2xx body that does not parse.
IsFailure(http) ==
    \/ http.failed
    \/ /\ ~http.failed
       /\ \/ (http.status < 200 \/ http.status > 299) /\ ~IsSentinel(http)
          \/ http.status \in 200..299 /\ http.json.kind = "unparseable"

Exchanges(t) ==
    (IF t.newHttp # NULL THEN {[http |-> t.newHttp, res |-> t.newRes]} ELSE {})
      \cup (IF t.prevHttp # NULL THEN {[http |-> t.prevHttp, res |-> t.prevRes]} ELSE {})

\* C10: a fetch answered with the sentinel yields the empty bundle, any
\* failure rejects the fetch, and an operation all of whose fetches got the
\* sentinel returns success with no file and no error.
C10_SentinelIsEmptyBundle ==
    \A t \in Tasks :
        /\ \A x \in Exchanges(t) :
            /\ IsSentinel(x.http) =>
                x.res = [status |-> "fulfilled", value |-> ContentApiResponse("", "", <<>>)]
            /\ IsFailure(x.http) => x.res.status = "rejected"
        /\ ( /\ t.pc = "done"
             /\ Exchanges(t) # {}
             /\ \A x \in Exchanges(t) : IsSentinel(x.http) )
            => t.result = [success |-> TRUE, filesCreated |-> <<>>]

C10_Witness ==
    \E t \in Returns :
        /\ t.op = "syncContent"
        /\ IsSentinel(t.newHttp) /\ IsSentinel(t.prevHttp)
        /\ t.result = [success |-> TRUE, filesCreated |-> <<>>]

-----------------------------------------------------------------------------
(* Properties of the scheduler (Spec).                                     *)

\* The id a call of start or stop resolves its argument to.
Resolved(call) == IF isLegacyMode /\ call.arg \in {UNDEFINED, ""} THEN legacyId ELSE call.arg

\* C1: start is idempotent per id: a start(id), or a start() that resolves
\* to id, on a registered id whose schedule is armed leaves the map of armed
\* timers as it is, creates no timer and starts no invocation of syncContent.
C1_StartIsIdempotent ==
    [][ ( /\ last'.op = "start"
          /\ Resolved(last') \in Keys(fetchers) \cap Keys(schedulers) )
        => /\ schedulers' = schedulers
           /\ timers' = timers
           /\ tasks' = tasks
           /\ last'.outcome = "already running" ]_vars

\* start() in legacy mode has found the legacy id armed, with its one timer.
C1_Witness ==
    /\ last.op = "start" /\ last.arg = UNDEFINED
    /\ last.outcome = "already running"
    /\ Cardinality(timers) = 1

\* The calls of removeFetcher that have returned, rather than thrown.
Removed == IF last.op = "removeFetcher" /\ ~Threw(last) THEN {last.arg} ELSE {}

\* C4: after removeFetcher(id) has returned, id is neither a key of fetchers
\* nor a key of schedulers, and no timer of id is left live.
C4_RemovedIsAbsent ==
    \A id \in Removed :
        /\ id \notin Keys(fetchers)
        /\ id \notin Keys(schedulers)
        /\ \A h \in timers : h.id # id

\* removeFetcher has removed an id whose schedule was armed.
C4_Witness ==
    /\ last.op = "removeFetcher"
    /\ last.outcome = "stopped and removed"
    /\ last.arg \notin Keys(fetchers) \cup Keys(schedulers)

-----------------------------------------------------------------------------
(* Properties of isFirstSync (SpecSource).                                 *)

\* fetcher.isFirstSyncPending()
isFirstSyncPending(o) == isFirstSync[o]

\* C2: a freshly constructed fetcher has isFirstSyncPending() true; its
\* first call of syncContent takes the merged path; once that call has
\* returned, whatever its fetches and writes came to, isFirstSyncPending() is
\* false; and a call of syncContent made after that return takes the
\* new-only path (no resetFirstSyncFlag being called on the fetcher).
C2_FirstSyncTransition ==
    /\ hist[1].calls = 0 => isFirstSyncPending(1)
    /\ \A t \in Tasks : t.first => t.path = "merged"
    /\ (hist[1].firstReturned /\ ~hist[1].everReset) => ~isFirstSyncPending(1)
    /\ \A t \in Tasks : t.afterFirst => (t.path = "new" /\ t.prevRes = NOT_ISSUED)

\* the second call, made after the first one returned, has returned in turn
C2_Witness ==
    /\ ~isFirstSyncPending(1)
    /\ \E t \in Returns : t.afterFirst /\ t.path = "new" /\ t.result.success

\* C3 as stated: a call of syncContent that is the next one after a call of
\* resetFirstSyncFlag takes the merged path, also when an earlier invocation
\* of syncContent was suspended at the moment of the reset.
C3_ResetMakesNextSyncMerged ==
    \A t \in Tasks : t.afterReset => t.path = "merged"

-----------------------------------------------------------------------------
(* SpecFetcher: one ContentFetcher in the hands of the host, which calls   *)
(* any of its sync-family methods and resetFirstSyncFlag at any time.      *)

\* What the endpoints answer in SpecFetcher: each kind of failure, or content.
NewReplies ==
    { NetworkFailure, HttpResponse(500, Unparseable), HttpResponse(200, Unparseable),
      HttpResponse(200, ContentBody(ContentApiResponse("<new-sitemap/>", "", <<>>))) }
PrevReplies ==
    { NetworkFailure, HttpResponse(404, ErrorBody("Not Found")),
      HttpResponse(200, ContentBody(ContentApiResponse("", "", PrevPages(1)))) }

NextFetcher ==
    \/ \E op \in SyncOps : Tracked(callSync(op, 1))
    \/ Tracked(resetFirstSyncFlag(1))
    \/ \E s \in Slots, resp \in NewReplies : Tracked(fetchContentSettles(s, resp))
    \/ \E s \in Slots, resp \in PrevReplies :
            Tracked(fetchPreviouslyPublishedContentSettles(s, resp))
    \/ \E s \in Slots, ok \in BOOLEAN : Tracked(createFilesWrites(s, ok))
    \/ \E s \in Slots : Tracked(createFilesReturns(s))

SpecFetcher == InitBundle /\ [][NextFetcher]_vars

\* The invocations that have returned after their one fetch was rejected.
SingleFetchFailed ==
    { t \in Returns :
        \/ t.path = "new" /\ t.newRes.status = "rejected"
        \/ t.path = "previous" /\ t.prevRes.status = "rejected" }

\* C11: syncContent, syncNewContentOnly and syncPreviousContentOnly do not
\* throw: when the one fetch they depend on has failed, their promise is
\* fulfilled with a SyncResult of success false, no file created and one
\* error, which names the failure of the fetch, and no write was attempted.
C11_FetchFailureIsAResult ==
    \A t \in SingleFetchFailed :
        LET res == IF t.path = "new" THEN t.newRes ELSE t.prevRes IN
        /\ t.op \in {"syncContent", "syncNewContentOnly", "syncPreviousContentOnly"}
        /\ DOMAIN t.result = {"success", "filesCreated", "errors"}
        /\ t.result.success = FALSE
        /\ t.result.filesCreated = <<>>
        /\ Len(t.result.errors) = 1
        /\ IsPrefix(<<CatchMessage(t.op)>>, t.result.errors[1])
        /\ IsPrefix(res.reason, SubSeq(t.result.errors[1], 2, Len(t.result.errors[1])))
        /\ t.attempts = <<>> /\ t.content = NULL

\* a syncContent that is not the first one has answered a 500 with a result
C11_Witness ==
    \E t \in SingleFetchFailed :
        /\ t.op = "syncContent" /\ ~t.first
        /\ t.newHttp = [failed |-> FALSE, status |-> 500, json |-> [kind |-> "unparseable"]]
        /\ t.result.success = FALSE

\* What a call of the scheduler can change, apart from the call itself.
schedulerState == <<fetchers, schedulers, timers, tasks, config, isFirstSync, intervalId>>

Referenced ==
    { fetchers[i].value : i \in DOMAIN fetchers }
      \cup { h.fetcher : h \in timers }
      \cup { tasks[s].obj : s \in DOMAIN tasks }

\* C16: addFetcher(id, config) on a registered id gives the config to the
\* fetcher of id and leaves the rest alone: fetchers (the same object under
\* id, every id once), isFirstSync, the armed ids and timers, the invocations
\* in flight; on an id that is not registered it registers a new
\* ContentFetcher, whose isFirstSync is true and which is not armed.  (The
\* host of Spec passes the config CfgB.)
C16_AddFetcherUpdatesInPlace ==
    [][ last'.op = "addFetcher" =>
        LET id == last'.arg
            o  == last'.obj
        IN  /\ Cardinality(Keys(fetchers')) = Len(fetchers')
            /\ UNCHANGED <<schedulers, timers, tasks, isFirstSync>>
            /\ \A p \in DOMAIN config \ {o} : config'[p] = config[p]
            /\ config'[o] = CfgB
            /\ IF Has(fetchers, id)
               THEN /\ last'.outcome = "updated"
                    /\ fetchers' = fetchers
                    /\ o = Get(fetchers, id)
               ELSE /\ last'.outcome = "added"
                    /\ fetchers' = Append(fetchers, [key |-> id, value |-> o])
                    /\ o \notin Referenced
                    /\ isFirstSync'[o]
                    /\ ~Has(schedulers', id) ]_vars

\* the config of a fetcher that has synced and is armed has been updated
C16_Witness ==
    /\ last.op = "addFetcher" /\ last.outcome = "updated"
    /\ ~isFirstSync[last.obj]
    /\ Has(schedulers, last.arg)
    /\ config[last.obj] = CfgB

-----------------------------------------------------------------------------
(* SpecConfig: updateConfig on a ContentFetcher that also syncs.           *)

\* The values a field of the config takes.
ConfigValues ==
    [domain |-> {"a.example", "b.example"},
     installId |-> {"install-a", "install-b"},
     targetDirectory |-> {"out", "public"}]

\* Partial<ContentFetcherConfig>: a value for each field of a set of fields.
PartialConfigs ==
    UNION { { p \in [F -> UNION { ConfigValues[f] : f \in F }] :
                \A f \in F : p[f] \in ConfigValues[f] } :
            F \in SUBSET DOMAIN ConfigValues }

\* fetcher.updateConfig(newConfig)
updateConfig(o, newConfig) ==
    /\ Constructed(o)
    /\ config' = [config EXCEPT ![o] = Spread(@, newConfig)]
    /\ last' = Call("updateConfig", newConfig, o, "returned")
    /\ UNCHANGED <<schedVars, isFirstSync, intervalId, tasks>>

NextConfig ==
    \/ \E p \in PartialConfigs : Untracked(updateConfig(1, p))
    \/ Untracked(callSync("syncContent", 1))
    \/ \E s \in Slots, resp \in Outage : Untracked(fetchContentSettles(s, resp))
    \/ \E s \in Slots, resp \in Outage :
            Untracked(fetchPreviouslyPublishedContentSettles(s, resp))
    \/ \E s \in Slots : Untracked(createFilesReturns(s))

SpecConfig == InitBundle /\ [][NextConfig]_vars

\* C17: updateConfig(newConfig) merges field by field: each of domain,
\* installId and targetDirectory takes the value newConfig gives it, and
\* keeps its value when newConfig has no such field; isFirstSync, intervalId
\* and the invocations in flight are left as they are.
C17_UpdateConfigMerges ==
    [][ last'.op = "updateConfig" =>
        LET newConfig == last'.arg
            o         == last'.obj
        IN  /\ DOMAIN config'[o] = {"domain", "installId", "targetDirectory"}
            /\ \A f \in DOMAIN config'[o] :
                  config'[o][f] = IF f \in DOMAIN newConfig THEN newConfig[f]
                                                            ELSE config[o][f]
            /\ UNCHANGED <<isFirstSync, intervalId, tasks>> ]_vars

\* only the domain was given: install-a and out are kept from the
\* constructor's config
C17_Witness ==
    /\ last.op = "updateConfig"
    /\ last.arg = [domain |-> "b.example"]
    /\ config[1] = ContentFetcherConfig("b.example", "install-a", "out")
    /\ ~isFirstSync[1]

-----------------------------------------------------------------------------
(* The code that awaits fetcher.syncContent() in the scheduler: the .catch *)
(* of start, the try/catch of the timer callback, the await of             *)
(* syncContent(id), the try/catch in the map of syncAll.                   *)

\* What an async function that returns no value fulfils its promise with.
VOID == [undefined |-> TRUE]

\* The promise of an invocation that has returned.
Promised(t) == IF "success" \in DOMAIN t.result THEN Fulfilled(t.result) ELSE t.result

\* The promise the awaiting code is left with, once that of the invocation
\* has settled.
Resume(by, settled) ==
    CASE by = "start" ->
            IF settled.status = "fulfilled" THEN settled ELSE Fulfilled(VOID)
      [] by = "tick" -> Fulfilled(VOID)
      [] by = "syncContent(id)" ->
            IF settled.status = "fulfilled" THEN Fulfilled(VOID) ELSE settled
      [] by = "syncAll" -> Fulfilled(VOID)
      [] by = "startScheduler" -> settled
      [] by = "host" -> settled

\* An awaiter: the code that awaits, and for syncAll which call of it.
Awaiter(by, call) == [by |-> by, call |-> call]

\* The number of a call of syncAll that no invocation in flight belongs to.
FreshCall(aw) ==
    Min({ k \in 1..(Len(aw) + 1) : \A i \in DOMAIN aw : aw[i].call # k })

\* What has been resolved by the return of the invocation awaited by a:
\* open tells whether other invocations of the same call of syncAll are
\* still in flight, so that its Promise.all is pending.
Resolution(a, settled, rest) ==
    [by |-> a.by, value |-> Resume(a.by, settled),
     open |-> (a.by = "syncAll" /\ \E i \in DOMAIN rest : rest[i] = a)]

\* A call of the scheduler that starts invocations: they are awaited by `by`.
Launched(by, A) ==
    /\ A
    /\ LET n == Len(tasks') - Len(tasks)
           a == Awaiter(by, IF by = "syncAll" THEN FreshCall(awaiting) ELSE 0)
       IN  /\ awaiting' = awaiting \o [k \in 1..n |-> a]
           /\ resolved' = IF by = "syncAll" /\ n = 0 /\ last'.outcome = "called"
                           THEN Resolution(a, Fulfilled(VOID), <<>>)
                           ELSE IF by = "syncContent(id)" /\ Threw(last')
                           THEN Resolution(a, Rejected(last'.outcome), <<>>)
                           ELSE NULL
    /\ UNCHANGED <<hist, room>>

\* A step of invocation s: when it returns, the code awaiting it resumes.
Resumed(s, A) ==
    /\ A
    /\ IF Len(tasks') < Len(tasks)
       THEN /\ awaiting' = Without(awaiting, s)
            /\ resolved' = Resolution(awaiting[s], Promised(last'.task),
                                       Without(awaiting, s))
       ELSE /\ awaiting' = awaiting
            /\ resolved' = NULL
    /\ UNCHANGED <<hist, room>>

\* A call of the scheduler that starts no invocation.
Plain(A) == A /\ resolved' = NULL /\ UNCHANGED <<awaiting, hist, room>>

-----------------------------------------------------------------------------
(* SpecTimer: a scheduler in legacy mode, its timer and the syncs of its   *)
(* fetcher, over the answers of the endpoints and the outcomes of writes.  *)

InitTimer == Init /\ isLegacyMode

NextTimer ==
    \/ \E id \in {UNDEFINED, "a"} : Launched("start", start(id))
    \/ \E id \in {UNDEFINED, "a"} : Plain(stop(id))
    \/ Plain(stopAll)
    \/ Plain(removeFetcher("a"))
    \/ \E h \in timers : Launched("tick", tick(h))
    \/ \E s \in Slots, resp \in NewAnswers : Resumed(s, fetchContentSettles(s, resp))
    \/ \E s \in Slots, resp \in PrevAnswers :
            Resumed(s, fetchPreviouslyPublishedContentSettles(s, resp))
    \/ \E s \in Slots, ok \in BOOLEAN : Resumed(s, createFilesWrites(s, ok))
    \/ \E s \in Slots : Resumed(s, createFilesReturns(s))

SpecTimer == InitTimer /\ [][NextTimer]_vars

\* The timer of every armed id is live.
ArmedTimersLive(sch, tm) == \A i \in DOMAIN sch : sch[i].value \in tm

\* C13: a tick whose syncContent fails does not disarm the schedule: the
\* return of an invocation, whatever its result, changes neither schedulers
\* nor the timers, and the timer callback is left with a fulfilled promise;
\* the timer of an armed id stays live, so that it fires again; an id leaves
\* schedulers only in a step of stop, stopAll or removeFetcher.
C13_FailedTickKeepsSchedule ==
    [][ /\ ArmedTimersLive(schedulers', timers')
        /\ ~(Keys(schedulers) \subseteq Keys(schedulers'))
             => last'.op \in {"stop", "stopAll", "removeFetcher"}
        /\ last'.task # NULL =>
             /\ UNCHANGED <<schedulers, timers>>
             /\ resolved'.by = "tick" => resolved'.value = Fulfilled(VOID) ]_vars

\* the sync of a tick has returned with a failed write, the id still armed
C13_Witness ==
    /\ resolved # NULL /\ resolved.by = "tick"
    /\ last.task.result.success = FALSE
    /\ last.task.attempts # <<>>
    /\ Has(schedulers, "a")
    /\ \E h \in timers : h.id = "a"

\* C14: start on a registered id that is not armed arms it with one new
\* timer, which repeats (a tick leaves it live), and calls syncContent on the
\* fetcher of the id exactly once; start returns while that invocation is
\* suspended at its first await; when the invocation returns, whatever its
\* result, the .catch of start is left with a fulfilled promise and neither
\* schedulers nor the timers change.
C14_StartArmsAndSyncsOnce ==
    [][ /\ ( /\ last'.op = "start"
             /\ Has(fetchers, Resolved(last'))
             /\ ~Has(schedulers, Resolved(last')) ) =>
            LET id == Resolved(last')
                o  == Get(fetchers, id)
                n  == Len(tasks)
            IN  /\ last'.outcome = "started"
                /\ \E h \in timers' \ timers :
                      /\ timers' = timers \cup {h}
                      /\ h.id = id /\ h.fetcher = o
                      /\ schedulers' = Append(schedulers, [key |-> id, value |-> h])
                /\ Len(tasks') = n + 1
                /\ SubSeq(tasks', 1, n) = tasks
                /\ tasks'[n + 1].op = "syncContent"
                /\ tasks'[n + 1].obj = o
                /\ tasks'[n + 1].pc = "fetch"
                /\ awaiting' = Append(awaiting, [by |-> "start", call |-> 0])
        /\ last'.op = "tick" => UNCHANGED <<schedulers, timers>>
        /\ (resolved' # NULL /\ resolved'.by = "start") =>
              /\ UNCHANGED <<schedulers, timers>>
              /\ resolved'.value.status = "fulfilled" ]_vars

\* the sync that start has begun has returned a failure, the id still armed
C14_Witness ==
    /\ resolved # NULL /\ resolved.by = "start"
    /\ last.task.result.success = FALSE
    /\ Has(schedulers, "a")
    /\ Cardinality(timers) = 1

\* C15: stop on an armed id leaves no live timer of that id, so that no tick
\* calls syncContent for it until start arms it again (a tick runs only for
\* an id that is armed, on the timer schedulers holds for it); the
\* invocations in flight and the code awaiting them are left as they are by
\* stop, and an invocation leaves only by returning its result.
C15_StopKeepsRunningSync ==
    [][ /\ (last'.op = "stop" /\ last'.outcome = "stopped") =>
              /\ ~Has(schedulers', Resolved(last'))
              /\ \A h \in timers' : h.id # Resolved(last')
              /\ UNCHANGED <<tasks, awaiting, isFirstSync, config>>
        /\ last'.op = "tick" =>
              /\ Has(schedulers, last'.arg)
              /\ Get(schedulers, last'.arg) \in timers
              /\ Get(schedulers, last'.arg).fetcher = last'.obj
        /\ Len(tasks') < Len(tasks) =>
              /\ last'.outcome = "returned"
              /\ "success" \in DOMAIN last'.task.result ]_vars

\* a sync that was in flight when its id was stopped has returned its result
C15_Witness ==
    /\ last.task # NULL /\ last.outcome = "returned"
    /\ last.task.attempts # <<>>
    /\ Has(fetchers, "a") /\ ~Has(schedulers, "a")
    /\ timers = {}

-----------------------------------------------------------------------------
(* SpecAll: a scheduler in multi-fetcher mode with up to two sources, the  *)
(* host calling syncContent(id) and syncAll() at any time, also while      *)
(* earlier syncs are suspended; source "a" can be armed and stopped.       *)

Sources == 1..(MaxObjs + 1)
MaxRuns == MaxTasks + 1

InitAll ==
    /\ config = [o \in Sources |-> CfgA]
    /\ isFirstSync = [o \in Sources |-> TRUE]
    /\ intervalId = [o \in Sources |-> NULL]
    /\ hist = [o \in Sources |-> NoHistory]
    /\ tasks = <<>>
    /\ last = Call("new", UNDEFINED, NoObj, "constructed")
    /\ awaiting = <<>>
    /\ resolved = NULL
    /\ room = MaxRuns
    /\ schedulers = <<>>
    /\ timers = {}
    /\ isLegacyMode = FALSE /\ legacyId = UNDEFINED
    /\ fetchers = <<>>
    /\ nObjs = 0

NextAll ==
    \/ \E id \in {"a", "b"} : Plain(addFetcher(id, CfgB))
    \/ Launched("start", start("a"))
    \/ Plain(stop("a"))
    \/ \E h \in timers : Launched("tick", tick(h))
    \/ \E id \in {"a", "b"} : Launched("syncContent(id)", schedulerSyncContent(id))
    \/ Launched("syncAll", syncAll)
    \/ \E s \in DOMAIN tasks, resp \in Outage :
            Resumed(s, fetchContentSettles(s, resp))
    \/ \E s \in DOMAIN tasks, resp \in Outage :
            Resumed(s, fetchPreviouslyPublishedContentSettles(s, resp))
    \/ \E s \in DOMAIN tasks : Resumed(s, createFilesReturns(s))

SpecAll == InitAll /\ [][NextAll]_vars

\* C18 as stated: scheduler.syncContent(id) on an id that is not registered
\* fails with the not-found error and starts no invocation; on a registered
\* id it calls syncContent on the fetcher of the id once and leaves
\* schedulers and the timers as they are; when that invocation returns, the
\* promise of scheduler.syncContent(id) is fulfilled with its SyncResult.
C18_SyncOneReturnsOutcome ==
    [][ /\ last'.op = "scheduler.syncContent" =>
            /\ UNCHANGED <<fetchers, schedulers, timers>>
            /\ IF Has(fetchers, last'.arg)
               THEN /\ Len(tasks') = Len(tasks) + 1
                    /\ SubSeq(tasks', 1, Len(tasks)) = tasks
                    /\ tasks'[Len(tasks')].op = "syncContent"
                    /\ tasks'[Len(tasks')].obj = Get(fetchers, last'.arg)
                    /\ resolved' = NULL
               ELSE /\ tasks' = tasks
                    /\ resolved'.value = Rejected("threw: not found")
        /\ (resolved' # NULL /\ resolved'.by = "syncContent(id)" /\ last'.task # NULL) =>
            /\ UNCHANGED <<fetchers, schedulers, timers>>
            /\ resolved'.value = Fulfilled(last'.task.result) ]_vars

\* C19: syncAll calls syncContent once on the fetcher of every registered
\* id, in the order of the Map, before it is suspended, all of them awaited
\* by this one call; every later step is a step of one invocation and leaves
\* the others as they are, whatever the result of the one that returns; the
\* promise of syncAll is pending while one of its invocations is in flight
\* and is fulfilled, never rejected, when the last of them has returned (at
\* once when no id is registered).
C19_SyncAllRunsEverySource ==
    [][ /\ last'.op = "syncAll" =>
            LET n == Len(tasks)
                k == Len(fetchers)
            IN  /\ UNCHANGED <<fetchers, schedulers, timers>>
                /\ Len(tasks') = n + k
                /\ SubSeq(tasks', 1, n) = tasks
                /\ \A i \in 1..k :
                      /\ tasks'[n + i].op = "syncContent"
                      /\ tasks'[n + i].obj = fetchers[i].value
                      /\ tasks'[n + i].pc = "fetch"
                /\ Len(awaiting') = n + k
                /\ SubSeq(awaiting', 1, n) = awaiting
                /\ \A i \in 1..k :
                      /\ awaiting'[n + i].by = "syncAll"
                      /\ awaiting'[n + i] = awaiting'[n + 1]
                      /\ \A j \in 1..n : awaiting[j] # awaiting'[n + i]
                /\ IF k = 0
                   THEN resolved' = [by |-> "syncAll", value |-> Fulfilled(VOID),
                                     open |-> FALSE]
                   ELSE resolved' = NULL
        /\ last'.task # NULL =>
            \E s \in DOMAIN tasks :
                /\ tasks' = Without(tasks, s)
                /\ awaiting' = Without(awaiting, s)
                /\ resolved'.by = awaiting[s].by
                /\ awaiting[s].by = "syncAll" =>
                     /\ resolved'.value = Fulfilled(VOID)
                     /\ resolved'.open <=>
                            \E i \in DOMAIN awaiting' : awaiting'[i] = awaiting[s]
        /\ (Len(tasks') = Len(tasks) /\ tasks' # tasks) =>
            /\ awaiting' = awaiting
            /\ \E s \in DOMAIN tasks :
                  \A i \in DOMAIN tasks : i # s => tasks'[i] = tasks[i] ]_vars

\* two sources: the sync of the second one has returned a failure while the
\* sync of the first one, of the same syncAll, is still in flight
C19_Witness ==
    /\ Len(fetchers) = 2
    /\ resolved # NULL /\ resolved.by = "syncAll" /\ resolved.open
    /\ last.task.result.success = FALSE
    /\ last.task.obj = fetchers[2].value
    /\ \E i \in DOMAIN tasks :
          /\ awaiting[i].by = "syncAll"
          /\ tasks[i].obj = fetchers[1].value

-----------------------------------------------------------------------------
(* SpecArm: a scheduler constructed in either mode, the host registering   *)
(* and removing sources under "" and "a" and arming and stopping them one  *)
(* by one or all at once, while timers fire and the syncs they start run.  *)

InitArm ==
    /\ config = [o \in Sources |-> CfgA]
    /\ isFirstSync = [o \in Sources |-> TRUE]
    /\ intervalId = [o \in Sources |-> NULL]
    /\ hist = [o \in Sources |-> NoHistory]
    /\ tasks = <<>>
    /\ last = Call("new", UNDEFINED, NoObj, "constructed")
    /\ awaiting = <<>>
    /\ resolved = NULL
    /\ room = MaxTasks
    /\ schedulers = <<>>
    /\ timers = {}
    /\ \/ /\ isLegacyMode = FALSE /\ legacyId = UNDEFINED
          /\ fetchers = <<>>
          /\ nObjs = 0
       \/ /\ isLegacyMode = TRUE /\ legacyId = "a"
          /\ fetchers = <<[key |-> legacyId, value |-> 1]>>
          /\ nObjs = 1

NextArm ==
    \/ \E id \in {"", "a"} : Plain(addFetcher(id, CfgB))
    \/ \E id \in {"", "a"} : Plain(removeFetcher(id))
    \/ \E id \in {UNDEFINED, "", "a"} : Launched("start", start(id))
    \/ \E id \in {UNDEFINED, "", "a"} : Plain(stop(id))
    \/ Launched("start", startAll)
    \/ Plain(stopAll)
    \/ \E h \in timers : Launched("tick", tick(h))
    \/ \E s \in DOMAIN tasks, resp \in Outage :
            Resumed(s, fetchContentSettles(s, resp))
    \/ \E s \in DOMAIN tasks, resp \in Outage :
            Resumed(s, fetchPreviouslyPublishedContentSettles(s, resp))
    \/ \E s \in DOMAIN tasks : Resumed(s, createFilesReturns(s))

SpecArm == InitArm /\ [][NextArm]_vars

\* C20 as stated: when startAll returns, the ids in schedulers are the ids
\* in fetchers, the ids armed before keep their timers and every other
\* registered id has a new one; when stopAll returns, schedulers is empty
\* and no timer is live; neither changes fetchers.
C20_StartAllArmsEveryId ==
    [][ /\ (last'.op = "startAll" /\ last'.outcome = "returned") =>
            /\ fetchers' = fetchers
            /\ Keys(schedulers') = Keys(fetchers)
            /\ \A i \in DOMAIN schedulers : schedulers'[i] = schedulers[i]
            /\ \A i \in DOMAIN schedulers' :
                  i > Len(schedulers) => schedulers'[i].value \in timers' \ timers
        /\ (last'.op = "stopAll" /\ last'.outcome = "returned") =>
            /\ fetchers' = fetchers
            /\ schedulers' = <<>>
            /\ timers' = {} ]_vars

\* C21 as stated: start and stop with an id argument act on exactly that id
\* (start arms it when it is registered and fails with not-found when it is
\* not, stop leaves it unarmed, no other id is armed or disarmed); without
\* an argument they act in this way on legacyId in legacy mode and throw,
\* changing nothing, otherwise; a scheduler constructed in legacy mode has
\* legacyId registered.
C21_ExplicitIdIsTheTarget ==
    [][ /\ (last.op = "new" /\ isLegacyMode) => Has(fetchers, legacyId)
        /\ last'.op \in {"start", "stop"} =>
            LET ActsOn(id) ==
                    /\ \A y \in Keys(schedulers) \cup Keys(schedulers') :
                          y # id => (Has(schedulers, y) <=> Has(schedulers', y))
                    /\ last'.op = "start" =>
                          IF Has(fetchers, id)
                          THEN /\ last'.outcome \in {"started", "already running"}
                               /\ Has(schedulers', id)
                          ELSE /\ Threw(last')
                               /\ UNCHANGED <<fetchers, schedulers, timers, tasks>>
                    /\ last'.op = "stop" => ~Has(schedulers', id)
            IN  IF last'.arg # UNDEFINED THEN ActsOn(last'.arg)
                ELSE IF isLegacyMode THEN ActsOn(legacyId)
                ELSE /\ Threw(last')
                     /\ UNCHANGED <<fetchers, schedulers, timers, tasks>> ]_vars

\* C22: every id in schedulers is an id in fetchers; the handle schedulers
\* holds for an id is a live timer the scheduler created for that id; and
\* every live timer of the scheduler is the handle schedulers holds for its
\* id, so that an id is armed iff a timer created for it is not cancelled.
C22_NoOrphanedTimers ==
    /\ Keys(schedulers) \subseteq Keys(fetchers)
    /\ \A i \in DOMAIN schedulers :
          /\ schedulers[i].value \in timers
          /\ schedulers[i].value.owner = "scheduler"
          /\ schedulers[i].value.id = schedulers[i].key
    /\ \A h \in timers :
          h.owner = "scheduler" =>
              /\ Has(schedulers, h.id)
              /\ Get(schedulers, h.id) = h

\* removeFetcher("") in legacy mode has stopped the timer of legacyId and
\* removed the source registered under "": legacyId registered and unarmed
C22_Witness ==
    /\ isLegacyMode
    /\ last.op = "removeFetcher" /\ last.arg = "" /\ last.outcome = "stopped and removed"
    /\ Has(fetchers, legacyId) /\ ~Has(fetchers, "")
    /\ schedulers = <<>> /\ timers = {}

-----------------------------------------------------------------------------
(* SpecLive: SpecTimer with a timer that keeps firing while it is live and *)
(* with fetches and writes that terminate, whatever they answer.           *)

\* A live timer of the scheduler fires.
TimerFires == \E h \in timers : Launched("tick", tick(h))

\* The invocation at position s takes its next step: one of its fetches
\* settles, one of its writes ends, or it returns.
StepOf(s) ==
    \/ \E resp \in NewAnswers : Resumed(s, fetchContentSettles(s, resp))
    \/ \E resp \in PrevAnswers : Resumed(s, fetchPreviouslyPublishedContentSettles(s, resp))
    \/ \E ok \in BOOLEAN : Resumed(s, createFilesWrites(s, ok))
    \/ Resumed(s, createFilesReturns(s))

SpecLive ==
    /\ InitTimer
    /\ [][NextTimer]_vars
    /\ WF_vars(TimerFires)
    /\ \A s \in Slots : WF_vars(StepOf(s))

\* An invocation at one of the first s positions returns.
ReturnsWithin(s) ==
    \E k \in 1..s : k \in DOMAIN tasks /\ tasks' = Without(tasks, k)

\* C23: if from some point on the legacy id stays armed, its timer callback
\* runs infinitely often, each time calling syncContent on the fetcher of
\* the id; and every invocation returns: for every position s of the
\* invocations in flight, either the position is free infinitely often or an
\* invocation at position s or before it returns infinitely often (an
\* invocation only moves towards position 1, so none stays in flight
\* forever).
C23_ArmedScheduleKeepsSyncing ==
    /\ <>[](Has(schedulers, "a")) =>
          []<>(/\ last.op = "tick" /\ last.arg = "a" /\ last.outcome = "called"
               /\ tasks # <<>>
               /\ tasks[Len(tasks)].op = "syncContent"
               /\ tasks[Len(tasks)].obj = Get(fetchers, "a")
               /\ tasks[Len(tasks)].pc = "fetch")
    /\ \A s \in Slots :
          []<>(Len(tasks) < s) \/ []<><<ReturnsWithin(s)>>_vars

\* the sync of a tick has returned with files written, the id still armed
C23_Witness ==
    /\ resolved # NULL /\ resolved.by = "tick"
    /\ last.task.result.success = TRUE
    /\ last.task.result.filesCreated # <<>>
    /\ Has(schedulers, "a")

-----------------------------------------------------------------------------
(* SpecOverlap: one ContentFetcher in the hands of the host, which calls   *)
(* syncContent and resetFirstSyncFlag at any time, with up to MaxRuns      *)
(* invocations of syncContent suspended at once; the requests fail.        *)

InitOverlap ==
    /\ fetchers = <<>>
    /\ schedulers = <<>>
    /\ isLegacyMode = FALSE
    /\ legacyId = UNDEFINED
    /\ timers = {}
    /\ nObjs = 1
    /\ config = [o \in Objs |-> CfgA]
    /\ isFirstSync = [o \in Objs |-> TRUE]
    /\ intervalId = [o \in Objs |-> NULL]
    /\ hist = [o \in Objs |-> NoHistory]
    /\ tasks = <<>>
    /\ last = Call("new", UNDEFINED, NoObj, "constructed")
    /\ awaiting = <<>>
    /\ resolved = NULL
    /\ room = MaxRuns

NextOverlap ==
    \/ Tracked(callSync("syncContent", 1))
    \/ Tracked(resetFirstSyncFlag(1))
    \/ \E s \in DOMAIN tasks, resp \in Outage : Tracked(fetchContentSettles(s, resp))
    \/ \E s \in DOMAIN tasks, resp \in Outage :
            Tracked(fetchPreviouslyPublishedContentSettles(s, resp))
    \/ \E s \in DOMAIN tasks : Tracked(createFilesReturns(s))

SpecOverlap == InitOverlap /\ [][NextOverlap]_vars

\* C24 as stated: an invocation of syncContent takes the merged path only
\* when it is the first call on the fetcher or the first call since the
\* latest resetFirstSyncFlag, so that between two resets at most one
\* invocation takes it, also among invocations that overlap.
C24_OneMergedSyncPerReset ==
    \A t \in Tasks :
        (t.op = "syncContent" /\ t.path = "merged") => (t.first \/ t.afterReset)

\* C25 as stated: an invocation works with one config: the targetDirectory
\* its writes go to is that of the config it was called with, the one its
\* fetch URLs were built from, whatever updateConfig has done since.
C25_OneConfigPerSync ==
    \A t \in Writing : t.baseDir = t.dir

-----------------------------------------------------------------------------
(* SpecTwoTimers: a ContentFetcher the host has constructed and handed to  *)
(* a scheduler in legacy mode; the host uses the scheduler and also the    *)
(* fetcher's own startScheduler and stopScheduler.                         *)

\* fetcher.startScheduler(): a timer of its own and an initial sync that is
\* not awaited, unless intervalId is set.
startScheduler(o) ==
    /\ Constructed(o)
    /\ IF intervalId[o] # NULL
       THEN /\ last' = Call("startScheduler", UNDEFINED, o, "already running")
            /\ UNCHANGED <<schedVars, config, isFirstSync, intervalId, tasks>>
       ELSE /\ Room(1)
            /\ intervalId' = [intervalId EXCEPT
                                ![o] = setInterval(timers, "fetcher", UNDEFINED, o)]
            /\ timers' = timers \cup {intervalId'[o]}
            /\ tasks' = Invoke(tasks, "syncContent", o)
            /\ last' = Call("startScheduler", UNDEFINED, o, "started")
            /\ UNCHANGED <<fetchers, schedulers, isLegacyMode, legacyId, nObjs,
                           config, isFirstSync>>

\* fetcher.stopScheduler()
stopScheduler(o) ==
    /\ Constructed(o)
    /\ IF intervalId[o] # NULL
       THEN /\ timers' = timers \ {intervalId[o]}
            /\ intervalId' = [intervalId EXCEPT ![o] = NULL]
            /\ last' = Call("stopScheduler", UNDEFINED, o, "stopped")
            /\ UNCHANGED <<fetchers, schedulers, isLegacyMode, legacyId, nObjs,
                           config, isFirstSync, tasks>>
       ELSE /\ last' = Call("stopScheduler", UNDEFINED, o, "not running")
            /\ UNCHANGED <<schedVars, config, isFirstSync, intervalId, tasks>>

NextTwoTimers ==
    \/ \E id \in {UNDEFINED, "a"} : Launched("start", start(id))
    \/ \E id \in {UNDEFINED, "a"} : Plain(stop(id))
    \/ Launched("start", startAll)
    \/ Plain(stopAll)
    \/ Plain(removeFetcher("a"))
    \/ Launched("startScheduler", startScheduler(1))
    \/ Plain(stopScheduler(1))
    \/ \E h \in timers : Launched("tick", tick(h))
    \/ \E s \in DOMAIN tasks, resp \in Outage :
            Resumed(s, fetchContentSettles(s, resp))
    \/ \E s \in DOMAIN tasks, resp \in Outage :
            Resumed(s, fetchPreviouslyPublishedContentSettles(s, resp))
    \/ \E s \in DOMAIN tasks : Resumed(s, createFilesReturns(s))

SpecTwoTimers == InitTimer /\ [][NextTwoTimers]_vars

\* C26 as stated: of the live timers, those of the scheduler and that of the
\* fetcher itself taken together, at most one calls syncContent on a given
\* fetcher.
C26_OneTimerPerSource ==
    \A o \in 1..nObjs :
        Cardinality({ h \in timers : h.fetcher = o }) <= 1

\* C27: the fetcher the timer callback of an armed id has captured is the
\* fetcher registered under that id, and a tick calls syncContent on it.
C27_TickSyncsRegisteredSource ==
    /\ \A i \in DOMAIN schedulers :
          /\ Has(fetchers, schedulers[i].key)
          /\ schedulers[i].value.fetcher = Get(fetchers, schedulers[i].key)
    /\ (last.op = "tick" /\ Has(schedulers, last.arg)) =>
          last.obj = Get(fetchers, last.arg)

\* "a" was removed and registered again with a new ContentFetcher, then
\* armed: its tick syncs the new one
C27_Witness ==
    /\ last.op = "tick" /\ last.arg = "a"
    /\ Has(schedulers, "a")
    /\ Get(fetchers, "a") = 2
    /\ last.obj = 2
    /\ tasks # <<>> /\ tasks[Len(tasks)].obj = 2

\* C28 as stated: start(X), stop(X), addFetcher(X, cfg) and removeFetcher(X)
\* with an id string X leave every other id Y as it is: registered or not,
\* armed or not, with the same fetcher, and that fetcher with the same
\* config, the same isFirstSync and no new invocation of syncContent.
C28_PerIdFrame ==
    [][ ( /\ last'.op \in {"start", "stop", "addFetcher", "removeFetcher"}
          /\ last'.arg # UNDEFINED ) =>
            \A y \in Ids \ {last'.arg} :
                /\ Has(fetchers', y) <=> Has(fetchers, y)
                /\ Has(schedulers', y) <=> Has(schedulers, y)
                /\ Has(fetchers, y) =>
                      LET o == Get(fetchers, y)
                      IN  /\ Get(fetchers', y) = o
                          /\ config'[o] = config[o]
                          /\ isFirstSync'[o] = isFirstSync[o]
                          /\ \A k \in DOMAIN tasks' :
                                k > Len(tasks) => tasks'[k].obj # o ]_vars

-----------------------------------------------------------------------------
(* Properties of isFirstSync over all the methods of a fetcher             *)
(* (SpecFetcher).                                                          *)

\* C29 as stated: isFirstSync goes from true to false only when an
\* invocation of syncContent returns whose previously-published fetch was
\* fulfilled; a first sync whose previously-published fetch was rejected
\* leaves it true.
C29_FlagClearedOnlyAfterPrevFetch ==
    [][ \A o \in Objs :
          /\ (isFirstSync[o] /\ ~isFirstSync'[o]) =>
                /\ last'.op = "syncContent" /\ last'.outcome = "returned"
                /\ last'.obj = o
                /\ last'.task.prevRes.status = "fulfilled"
          /\ ( /\ last'.op = "syncContent" /\ last'.outcome = "returned"
               /\ last'.obj = o
               /\ last'.task.prevRes.status = "rejected" ) => isFirstSync'[o] ]_vars

\* C29 amended: isFirstSync goes from true to false only when an invocation
\* of syncContent returns from createFiles; every such return leaves it
\* false, whatever its two fetches and its writes came to, a rejected
\* previously-published fetch included; an invocation of syncContent that
\* returns without createFiles (new-only path, fetch rejected) leaves it as
\* it is.
C29_FlagClearedByEverySyncReturn ==
    [][ \A o \in Objs :
          /\ (isFirstSync[o] /\ ~isFirstSync'[o]) =>
                /\ last'.op = "syncContent" /\ last'.outcome = "returned"
                /\ last'.obj = o
                /\ last'.task.content # NULL
          /\ ( /\ last'.op = "syncContent" /\ last'.outcome = "returned"
               /\ last'.obj = o ) =>
                IF last'.task.content # NULL
                THEN ~isFirstSync'[o]
                ELSE /\ isFirstSync'[o] = isFirstSync[o]
                     /\ last'.task.path = "new"
                     /\ last'.task.newRes.status = "rejected" ]_vars

\* the first sync has returned, its previously-published fetch rejected and
\* a file written from the new content: the flag is false
C29_Witness ==
    /\ last.op = "syncContent" /\ last.outcome = "returned"
    /\ last.task.first
    /\ last.task.prevRes.status = "rejected"
    /\ last.task.newRes.status = "fulfilled"
    /\ last.task.result.filesCreated # <<>>
    /\ ~isFirstSync[1]

-----------------------------------------------------------------------------
(* SpecFlag: a ContentFetcher registered in a legacy scheduler; the host   *)
(* calls every sync-family method, resetFirstSyncFlag and updateConfig on  *)
(* the fetcher and addFetcher, start and stop on the scheduler; the        *)
(* requests fail.                                                          *)

NextFlag ==
    \/ \E op \in SyncOps : Launched("host", callSync(op, 1))
    \/ Plain(resetFirstSyncFlag(1))
    \/ Plain(updateConfig(1, [targetDirectory |-> "public"]))
    \/ Plain(addFetcher("a", CfgB))
    \/ \E id \in {UNDEFINED, "a"} : Launched("start", start(id))
    \/ \E id \in {UNDEFINED, "a"} : Plain(stop(id))
    \/ \E h \in timers : Launched("tick", tick(h))
    \/ \E s \in DOMAIN tasks, resp \in Outage :
            Resumed(s, fetchContentSettles(s, resp))
    \/ \E s \in DOMAIN tasks, resp \in Outage :
            Resumed(s, fetchPreviouslyPublishedContentSettles(s, resp))
    \/ \E s \in DOMAIN tasks : Resumed(s, createFilesReturns(s))

SpecFlag == InitTimer /\ [][NextFlag]_vars

\* C30: isFirstSync changes only in the return of an invocation of
\* syncContent, to false, and in resetFirstSyncFlag, to true: calls and
\* returns of syncNewContentOnly, syncPreviousContentOnly and syncAllContent,
\* updateConfig, addFetcher on a registered id, start, stop and the timer
\* callback leave it as it is; and the manual methods take their own fetch
\* path whatever the flag is.
C30_FlagChangedBySyncAndResetOnly ==
    [][ /\ \A o \in Objs :
              isFirstSync'[o] # isFirstSync[o] =>
                  \/ /\ last'.op = "syncContent" /\ last'.outcome = "returned"
                     /\ last'.obj = o
                     /\ ~isFirstSync'[o]
                  \/ /\ last'.op = "resetFirstSyncFlag"
                     /\ last'.obj = o
                     /\ isFirstSync'[o]
        /\ last'.op \in {"syncNewContentOnly", "syncPreviousContentOnly", "syncAllContent",
                         "updateConfig", "addFetcher", "start", "stop", "tick"}
              => UNCHANGED isFirstSync
        /\ ( /\ last'.op \in SyncOps \ {"syncContent"}
             /\ last'.outcome = "called" ) =>
              tasks'[Len(tasks')].path =
                  CASE last'.op = "syncNewContentOnly"      -> "new"
                    [] last'.op = "syncPreviousContentOnly" -> "previous"
                    [] last'.op = "syncAllContent"          -> "merged" ]_vars

\* syncAllContent has come back from createFiles on a fetcher that has never
\* run syncContent and is armed by now: the flag is still true
C30_Witness ==
    /\ last.op = "syncAllContent" /\ last.outcome = "returned"
    /\ last.task.path = "merged"
    /\ last.task.content # NULL
    /\ last.task.result.success
    /\ isFirstSync[1]
    /\ config[1].targetDirectory = "public"

====
